---- MODULE Spec2Model ----
(***************************************************************************)
(* The task queues of pulp/tasks/queue/base.py: a SchedulingTaskQueue      *)
(* combined with the in-memory storage of VolatileTaskQueue, its           *)
(* dispatcher thread, the threads run() starts and the callers of the      *)
(* public operations.                                                      *)
(*                                                                         *)
(* Every public operation of SchedulingTaskQueue runs its body between     *)
(* self._lock.acquire() and the release in its finally clause, so the body *)
(* is one atomic action enabled when the lock is free.  The dispatcher is  *)
(* the only thread that keeps the lock across steps.  An uncaught          *)
(* exception ends the thread that raised it and nothing else; a lock that  *)
(* thread held stays held.                                                 *)
(***************************************************************************)
EXTENDS Integers, Sequences, FiniteSets, TLC

\* ------------------------------------------------------------------ bounds
NumTasks == 2
MaxEnqueues == 2
MaxRuns == 2

Tasks == 1..NumTasks
\* an id no task has, for find() of a missing task
MissingId == NumTasks + 1
TaskIds == Tasks \cup {MissingId}

VARIABLES
    waiting_tasks,      \* self._waiting_tasks
    running_tasks,      \* self._running_tasks
    complete_tasks,     \* self._complete_tasks
    lock,               \* owner of self._lock: "free" or "dispatcher"
    dipatcher_timeout,  \* self._dipatcher_timeout: "unset" or "set"
    dispatcher,         \* position of the dispatcher thread in _dispatch
    dispatcher_error,   \* the exception that ended the dispatcher thread
    task_state,         \* task.state of every task
    task_queue,         \* task.queue of every task
    spawned,            \* threads started by run(), task.run not yet begun
    in_operation,       \* threads executing the task's operation
    returned,           \* threads whose operation returned, about to call complete()
    starts,             \* how many threads run() has started for each task
    enqueues,           \* number of enqueue() calls made so far
    since_wait,         \* tasks enqueued since the dispatcher entered its timed wait
    dispatched,         \* tasks a dispatch cycle has moved to Running
    failed,             \* tasks with a thread whose operation raised
    cycle_events,       \* what the last dispatch cycle did, in order
    simple_ran,         \* SimpleTaskQueue: operations run() has executed, per task
    checked,            \* submissions past the uniqueness check, not yet enqueued
    last_call           \* the last public call made and how it ended

vars == <<waiting_tasks, running_tasks, complete_tasks, lock, dipatcher_timeout,
          dispatcher, dispatcher_error, task_state, task_queue, spawned,
          in_operation, returned, starts, enqueues, since_wait, dispatched,
          failed, cycle_events, simple_ran, checked, last_call>>

\* ------------------------------------------------------- python list helpers
\* x in list
In(x, s) == \E i \in 1..Len(s) : s[i] = x

\* number of occurrences of x in list
Count(x, s) == Cardinality({i \in 1..Len(s) : s[i] = x})

\* index of the first occurrence of x in list (x in list)
FirstIndex(x, s) == CHOOSE i \in 1..Len(s) : s[i] = x /\ \A j \in 1..(i - 1) : s[j] # x

\* list.remove(x): the list without the first occurrence of x (x in list);
\* list.remove raises ValueError when x is not in the list, see the callers
ListRemove(x, s) ==
    LET k == FirstIndex(x, s)
    IN  [i \in 1..(Len(s) - 1) |-> IF i < k THEN s[i] ELSE s[i + 1]]

ElemSet(s) == {s[i] : i \in 1..Len(s)}

\* ------------------------------------------------------ attribute look-up
\* the methods and attributes an instance of the queue class has
QueueAttrs ==
    {"_waiting_task", "_running_task", "_complete_task", "_remove_task", "_all_tasks",
     "enqueue", "run", "complete", "find",
     "_dispatch", "_initialize_runs", "_finalize_runs", "_get_tasks", "_pre_run",
     "_post_run", "_lock", "_condition", "_waiting_tasks", "_running_tasks",
     "_complete_tasks", "_dispatcher"}

\* the methods of threading.RLock
RLockAttrs == {"acquire", "release"}

\* number of parameters, besides self, the per-task hooks are defined with:
\* def _pre_run(self) and def _post_run(self)
HookParams(name) == 0

\* _waiting_task as it would be with insert(0, task): newest first
WaitingTaskFront(task, w) == <<task>> \o w

\* ------------------------------------------------- VolatileTaskQueue storage
\* _waiting_task: self._waiting_tasks.append(task)
WaitingTask(task, w) == Append(w, task)

\* _all_tasks: itertools.chain(waiting, running, complete)
AllTasks(w, r, c) == w \o r \o c

\* _remove_task: three times "if task in list: list.remove(task)"
RemoveFrom(task, s) == IF In(task, s) THEN ListRemove(task, s) ELSE s

\* The queue's collections and thread bookkeeping as one value, so that the
\* dispatch cycle and the public run() share the code of run().
\*   w, r, c : the three lists     sp : threads started and not yet begun
\*   st : threads started so far   err : the exception raised, or "none"
\*   ev : what was done, in order, as <<what, task>>
Queue(w, r, c, sp, st) ==
    [w |-> w, r |-> r, c |-> c, sp |-> sp, st |-> st, err |-> "none", ev |-> <<>>]

Raise(q, e) == [q EXCEPT !.err = e]

Event(q, what, task) == [q EXCEPT !.ev = Append(@, <<what, task>>)]

\* _running_task as it would be with a remove that passes over a missing
\* task: the task is appended to the running list in every case
RunningTaskLenient(q, task) ==
    Event([q EXCEPT !.w = IF In(task, q.w) THEN ListRemove(task, q.w) ELSE q.w,
                    !.r = Append(q.r, task)],
          "running", task)

\* _running_task: self._waiting_tasks.remove(task) raises ValueError when the
\* task is not waiting, before anything is appended
RunningTask(q, task) ==
    IF In(task, q.w)
    THEN Event([q EXCEPT !.w = ListRemove(task, q.w), !.r = Append(q.r, task)],
               "running", task)
    ELSE Raise(q, "ValueError")

\* _complete_task: self._running_tasks.remove(task) raises ValueError when the
\* task is not running, before anything is appended
CompleteTask(q, task) ==
    IF In(task, q.r)
    THEN [q EXCEPT !.r = ListRemove(task, q.r), !.c = Append(q.c, task)]
    ELSE Raise(q, "ValueError")

\* ---------------------------------------------- SchedulingTaskQueue.run
\* run(task): _running_task(task), then threading.Thread(target=task.run).start()
Run(q, task) ==
    LET q1 == RunningTask(q, task)
    IN  IF q1.err # "none" THEN q1
        ELSE Event([q1 EXCEPT !.sp[task] = @ + 1, !.st[task] = @ + 1], "start", task)

\* ---------------------------------------------- SchedulingTaskQueue.find
\* the loop of find: the first task of _all_tasks() with that id, as a set
\* ({} is None); a task's id is its number
RECURSIVE FindLoop(_, _)
FindLoop(all, task_id) ==
    IF all = <<>> THEN {}
    ELSE IF Head(all) = task_id THEN {Head(all)}
    ELSE FindLoop(Tail(all), task_id)

\* ------------------------------------------ SchedulingTaskQueue._dispatch
\* _get_tasks of the select-all-waiting policy: every waiting task, in order
GetTasks(w) == w

\* the for loop of _dispatch over the selected tasks
RECURSIVE DispatchTasks(_, _)
DispatchTasks(selected, q) ==
    IF selected = <<>> THEN q
    ELSE IF HookParams("_pre_run") # 1 THEN Raise(q, "TypeError")
    ELSE IF "_run" \notin QueueAttrs
         THEN Raise(Event(q, "pre_run", Head(selected)), "AttributeError")
    ELSE LET q1 == Run(Event(q, "pre_run", Head(selected)), Head(selected))
         IN  IF q1.err # "none" THEN q1
             ELSE IF HookParams("_post_run") # 1 THEN Raise(q1, "TypeError")
             ELSE DispatchTasks(Tail(selected), Event(q1, "post_run", Head(selected)))

\* one pass of the body of "while True" after the timed wait returned
DispatchBody(q) ==
    IF "_initial_runs" \notin QueueAttrs THEN Raise(q, "AttributeError")
    ELSE LET q1 == DispatchTasks(GetTasks(q.w), Event(q, "initial_runs", MissingId))
         IN  IF q1.err # "none" THEN q1
             ELSE IF "_finalize_runs" \notin QueueAttrs THEN Raise(q1, "AttributeError")
             ELSE Event(q1, "finalize_runs", MissingId)

\* ----------------------------------------------------------------- state
Call(op, arg, raised, value) == [op |-> op, arg |-> arg, raised |-> raised, value |-> value]

Zero == [t \in Tasks |-> 0]

Init ==
    /\ waiting_tasks = <<>>
    /\ running_tasks = <<>>
    /\ complete_tasks = <<>>
    /\ lock = "free"
    /\ dipatcher_timeout = "unset"
    /\ dispatcher = "start"
    /\ dispatcher_error = "none"
    /\ task_state = [t \in Tasks |-> "Created"]
    /\ task_queue = [t \in Tasks |-> "None"]
    /\ spawned = Zero
    /\ in_operation = Zero
    /\ returned = Zero
    /\ starts = Zero
    /\ enqueues = 0
    /\ since_wait = {}
    /\ dispatched = {}
    /\ failed = {}
    /\ cycle_events = <<>>
    /\ simple_ran = Zero
    /\ checked = {}
    /\ last_call = Call("__init__", MissingId, "none", {})

\* __init__ has returned: callers hold the queue
Constructed == dipatcher_timeout = "set"

\* the last statement of __init__, after self._dispatcher.start()
Construct ==
    /\ dipatcher_timeout = "unset"
    /\ dipatcher_timeout' = "set"
    /\ UNCHANGED <<waiting_tasks, running_tasks, complete_tasks, lock, dispatcher,
                   dispatcher_error, task_state, task_queue, spawned, in_operation,
                   returned, starts, enqueues, since_wait, last_call, dispatched,
                   failed, cycle_events, simple_ran, checked>>

\* _dispatch: self._lock.acquire()
DispatchAcquire ==
    /\ dispatcher = "start"
    /\ lock = "free"
    /\ lock' = "dispatcher"
    /\ dispatcher' = "locked"
    /\ UNCHANGED <<waiting_tasks, running_tasks, complete_tasks, dipatcher_timeout,
                   dispatcher_error, task_state, task_queue, spawned, in_operation,
                   returned, starts, enqueues, since_wait, last_call, dispatched,
                   failed, cycle_events, simple_ran, checked>>

\* _dispatch: self._condition.wait(self._dipatcher_timeout) begins: the
\* attribute is read, then the wait releases the lock
DispatchWait ==
    /\ dispatcher = "locked"
    /\ IF dipatcher_timeout = "unset"
       THEN /\ dispatcher' = "dead"
            /\ dispatcher_error' = "AttributeError"
            /\ UNCHANGED <<lock, since_wait>>
       ELSE /\ dispatcher' = "waiting"
            /\ lock' = "free"
            /\ since_wait' = {}
            /\ UNCHANGED dispatcher_error
    /\ UNCHANGED <<waiting_tasks, running_tasks, complete_tasks, dipatcher_timeout,
                   task_state, task_queue, spawned, in_operation, returned, starts,
                   enqueues, last_call, dispatched,
                   failed, cycle_events, simple_ran, checked>>

\* _dispatch: the timed wait returns with the lock re-acquired and the body
\* of the loop runs, up to the next wait or to the exception that ends it
DispatchCycle ==
    /\ dispatcher = "waiting"
    /\ lock = "free"
    /\ LET q == DispatchBody(Queue(waiting_tasks, running_tasks, complete_tasks,
                                   spawned, starts))
       IN  /\ waiting_tasks' = q.w
           /\ running_tasks' = q.r
           /\ complete_tasks' = q.c
           /\ spawned' = q.sp
           /\ starts' = q.st
           /\ dispatcher' = IF q.err = "none" THEN "locked" ELSE "dead"
           /\ dispatcher_error' = q.err
           /\ dispatched' = dispatched \cup {t \in Tasks : q.st[t] > starts[t]}
           /\ cycle_events' = q.ev
    /\ lock' = "dispatcher"
    /\ UNCHANGED <<dipatcher_timeout, task_state, task_queue, in_operation, returned,
                   enqueues, since_wait, last_call,
                   failed, simple_ran, checked>>

\* ---------------------------------------------------- public operations
\* enqueue(task) as it would be with the acquire and the release left out:
\* the body runs whoever holds the lock
EnqueueUnlocked(task) ==
    /\ Constructed
    /\ enqueues < MaxEnqueues
    /\ enqueues' = enqueues + 1
    /\ task_queue' = [task_queue EXCEPT ![task] = "self"]
    /\ task_state' = [task_state EXCEPT ![task] = "Waiting"]
    /\ waiting_tasks' = WaitingTask(task, waiting_tasks)
    /\ since_wait' = IF dispatcher = "waiting" THEN since_wait \cup {task} ELSE since_wait
    /\ last_call' = Call("enqueue", task, "none", {})
    /\ UNCHANGED <<running_tasks, complete_tasks, lock, dipatcher_timeout, dispatcher,
                   dispatcher_error, spawned, in_operation, returned, starts,
                   dispatched, failed, cycle_events, simple_ran, checked>>

\* enqueue(task): under the lock, task.queue = self, task.waiting(),
\* self._waiting_task(task).  Nothing looks for the task in the collections.
Enqueue(task) ==
    /\ Constructed
    /\ lock = "free"
    /\ enqueues < MaxEnqueues
    /\ enqueues' = enqueues + 1
    /\ task_queue' = [task_queue EXCEPT ![task] = "self"]
    /\ task_state' = [task_state EXCEPT ![task] = "Waiting"]
    /\ waiting_tasks' = WaitingTask(task, waiting_tasks)
    /\ since_wait' = IF dispatcher = "waiting" THEN since_wait \cup {task} ELSE since_wait
    /\ last_call' = Call("enqueue", task, "none", {})
    /\ UNCHANGED <<running_tasks, complete_tasks, lock, dipatcher_timeout, dispatcher,
                   dispatcher_error, spawned, in_operation, returned, starts,
                   dispatched,
                   failed, cycle_events, simple_ran, checked>>

\* run(task) called on the queue: under the lock; the finally clause releases
\* the lock when _running_task raises, and no thread is started then
RunCall(task) ==
    /\ Constructed
    /\ lock = "free"
    /\ LET q == Run(Queue(waiting_tasks, running_tasks, complete_tasks, spawned, starts),
                    task)
       IN  /\ waiting_tasks' = q.w
           /\ running_tasks' = q.r
           /\ spawned' = q.sp
           /\ starts' = q.st
           /\ last_call' = Call("run", task, q.err, {})
    /\ UNCHANGED <<complete_tasks, lock, dipatcher_timeout, dispatcher, dispatcher_error,
                   task_state, task_queue, in_operation, returned, enqueues, since_wait,
                   dispatched,
                   failed, cycle_events, simple_ran, checked>>

\* find(task_id): self._lock.aqcuire() is looked up on the lock before the try
\* statement is entered; with the method found, the loop runs under the lock
FindCall(task_id) ==
    /\ Constructed
    /\ IF "aqcuire" \in RLockAttrs
       THEN /\ lock = "free"
            /\ last_call' = Call("find", task_id, "none",
                                 FindLoop(AllTasks(waiting_tasks, running_tasks,
                                                   complete_tasks), task_id))
       ELSE last_call' = Call("find", task_id, "AttributeError", {})
    /\ UNCHANGED <<waiting_tasks, running_tasks, complete_tasks, lock, dipatcher_timeout,
                   dispatcher, dispatcher_error, task_state, task_queue, spawned,
                   in_operation, returned, starts, enqueues, since_wait, dispatched,
                   failed, cycle_events, simple_ran, checked>>

\* _remove_task(task), the storage hook: no public operation wraps it, so it
\* runs without the lock
RemoveCall(task) ==
    /\ Constructed
    /\ waiting_tasks' = RemoveFrom(task, waiting_tasks)
    /\ running_tasks' = RemoveFrom(task, running_tasks)
    /\ complete_tasks' = RemoveFrom(task, complete_tasks)
    /\ last_call' = Call("remove", task, "none", {})
    /\ UNCHANGED <<lock, dipatcher_timeout, dispatcher, dispatcher_error, task_state,
                   task_queue, spawned, in_operation, returned, starts, enqueues,
                   since_wait, dispatched,
                   failed, cycle_events, simple_ran, checked>>

\* ------------------------------------- the thread run() starts: task.run
\* task.run begins in the new thread: the task reports Running
TaskBegin(task) ==
    /\ spawned[task] > 0
    /\ spawned' = [spawned EXCEPT ![task] = @ - 1]
    /\ in_operation' = [in_operation EXCEPT ![task] = @ + 1]
    /\ task_state' = [task_state EXCEPT ![task] = "Running"]
    /\ UNCHANGED <<waiting_tasks, running_tasks, complete_tasks, lock, dipatcher_timeout,
                   dispatcher, dispatcher_error, task_queue, returned, starts, enqueues,
                   since_wait, last_call, dispatched,
                   failed, cycle_events, simple_ran, checked>>

\* the task's operation returns
OperationReturns(task) ==
    /\ in_operation[task] > 0
    /\ in_operation' = [in_operation EXCEPT ![task] = @ - 1]
    /\ returned' = [returned EXCEPT ![task] = @ + 1]
    /\ UNCHANGED <<waiting_tasks, running_tasks, complete_tasks, lock, dipatcher_timeout,
                   dispatcher, dispatcher_error, task_state, task_queue, spawned, starts,
                   enqueues, since_wait, last_call, dispatched,
                   failed, cycle_events, simple_ran, checked>>

\* the task's operation raises and nothing catches it: the thread ends and
\* never calls complete()
OperationRaises(task) ==
    /\ in_operation[task] > 0
    /\ in_operation' = [in_operation EXCEPT ![task] = @ - 1]
    /\ failed' = failed \cup {task}
    /\ UNCHANGED <<waiting_tasks, running_tasks, complete_tasks, lock, dipatcher_timeout,
                   dispatcher, dispatcher_error, task_state, task_queue, spawned,
                   returned, starts, enqueues, since_wait, last_call, dispatched,
                   cycle_events, simple_ran, checked>>

\* the thread calls self.queue.complete(task): under the lock,
\* _complete_task(task); the task reports Complete when the call returned, and
\* the ValueError of a task that is not running ends the thread
Complete(task) ==
    /\ returned[task] > 0
    /\ lock = "free"
    /\ returned' = [returned EXCEPT ![task] = @ - 1]
    /\ LET q == CompleteTask(Queue(waiting_tasks, running_tasks, complete_tasks, spawned,
                                   starts), task)
       IN  /\ running_tasks' = q.r
           /\ complete_tasks' = q.c
           /\ task_state' = IF q.err = "none"
                            THEN [task_state EXCEPT ![task] = "Complete"]
                            ELSE task_state
           /\ last_call' = Call("complete", task, q.err, {})
    /\ UNCHANGED <<waiting_tasks, lock, dipatcher_timeout, dispatcher, dispatcher_error,
                   task_queue, spawned, in_operation, starts, enqueues, since_wait,
                   dispatched,
                   failed, cycle_events, simple_ran, checked>>

\* ------------------------------------------------------- specifications
Dispatcher == DispatchAcquire \/ DispatchWait \/ DispatchCycle

Next ==
    \/ Construct
    \/ DispatchAcquire
    \/ DispatchWait
    \/ DispatchCycle
    \/ \E task \in Tasks : Enqueue(task)
    \/ \E task \in Tasks : RunCall(task)
    \/ \E task_id \in TaskIds : FindCall(task_id)
    \/ \E task \in Tasks : RemoveCall(task)
    \/ \E task \in Tasks : TaskBegin(task)
    \/ \E task \in Tasks : OperationReturns(task)
    \/ \E task \in Tasks : OperationRaises(task)
    \/ \E task \in Tasks : Complete(task)

Spec == Init /\ [][Next]_vars

\* The scenario of the design's tests: a select-all-waiting policy, each task
\* enqueued once and never removed, callers that poll with find and leave
\* run() to the dispatcher.  The constructor returns, threads are scheduled
\* and the timed wait times out, so the constructor's and the dispatcher's
\* steps are weakly fair; callers need not call.  run() is reached from
\* DispatchCycle alone here, so the steps of the threads it starts are taken
\* only once a cycle has started one.
EnqueueOnce(task) == task_queue[task] = "None" /\ Enqueue(task)

ScenarioNext ==
    \/ Construct
    \/ DispatchAcquire
    \/ DispatchWait
    \/ DispatchCycle
    \/ \E task \in Tasks : EnqueueOnce(task)
    \/ \E task_id \in TaskIds : FindCall(task_id)

FairSpec ==
    /\ Init
    /\ [][ScenarioNext]_vars
    /\ WF_vars(Construct)
    /\ WF_vars(Dispatcher)

\* ------------------------------------------------------------- properties
Collections == <<waiting_tasks, running_tasks, complete_tasks>>

Occurrences(task) ==
    Count(task, waiting_tasks) + Count(task, running_tasks) + Count(task, complete_tasks)

Held(task) == In(task, AllTasks(waiting_tasks, running_tasks, complete_tasks))

\* C1: every task occurs in at most one of the Waiting, Running and Complete
\* collections, and at most once there, whatever was called, a second
\* enqueue of the same task included.
C1_AtMostOnce == \A task \in Tasks : Occurrences(task) <= 1

\* C2: a find(t.id) that follows enqueue(t) with no other call in between
\* returns t, and t reports Waiting and is in the Waiting collection.
C2_EnqueueThenFind ==
    [][\A task \in Tasks :
          (last_call = Call("enqueue", task, "none", {}) /\ FindCall(task))
          => /\ last_call'.raised = "none"
             /\ last_call'.value = {task}
             /\ task_state'[task] = "Waiting"
             /\ In(task, waiting_tasks')]_vars

\* C3: find(task_id) returns the task with that id when a collection holds
\* it, and returns None, raising nothing, when none does.
C3_FindReturns ==
    [][\A task_id \in TaskIds :
          FindCall(task_id)
          => /\ last_call'.raised = "none"
             /\ last_call'.value = IF task_id \in Tasks /\ Held(task_id)
                                   THEN {task_id} ELSE {}]_vars

\* C4: a dispatch cycle moves every task it selects to Running; a task a
\* cycle moved to Running leaves Running only in the complete() its thread
\* calls when its operation has returned; a task enters Complete only from
\* Running and only when an operation on it has returned.
C4_RunningUntilComplete ==
    [][/\ DispatchCycle =>
            \A task \in ElemSet(GetTasks(waiting_tasks)) : In(task, running_tasks')
       /\ \A task \in dispatched :
            Count(task, running_tasks') < Count(task, running_tasks) => Complete(task)
       /\ \A task \in Tasks :
            Count(task, complete_tasks') > Count(task, complete_tasks)
            => In(task, running_tasks) /\ returned[task] > 0]_vars

OnlyComplete(task) ==
    /\ In(task, complete_tasks)
    /\ ~In(task, waiting_tasks)
    /\ ~In(task, running_tasks)

\* C5: with a select-all-waiting policy and operations that return, every
\* enqueued task is eventually in the Complete collection and in no other.
C5_EventuallyComplete ==
    \A task \in Tasks : In(task, waiting_tasks) ~> OnlyComplete(task)

\* C6: a task enqueued while the dispatcher was in its timed wait, and still
\* waiting when the wait ends, is moved to Running by the cycle that follows.
C6_NextCycleRuns ==
    [][DispatchCycle =>
          \A task \in since_wait :
             In(task, waiting_tasks)
             => ~In(task, waiting_tasks') /\ In(task, running_tasks')]_vars

\* C7: the queue starts a task's operation at most once, and a dispatch
\* cycle has started every task it selected exactly once when it ends.
C7_StartedOnce ==
    [][/\ \A task \in Tasks : starts'[task] <= 1
       /\ DispatchCycle =>
            \A task \in ElemSet(GetTasks(waiting_tasks)) : starts'[task] = 1]_vars

\* C8: a task in the Waiting collection reports Waiting, one in the Running
\* collection reports Running, one in the Complete collection reports Complete.
C8_StateAgrees ==
    \A task \in Tasks :
        /\ In(task, waiting_tasks) => task_state[task] = "Waiting"
        /\ In(task, running_tasks) => task_state[task] = "Running"
        /\ In(task, complete_tasks) => task_state[task] = "Complete"

\* C9: a remove of a task that follows a remove of the same task, with no
\* other call in between, leaves the three collections unchanged.
C9_RemoveIdempotent ==
    [][\A task \in Tasks :
          (last_call = Call("remove", task, "none", {}) /\ RemoveCall(task))
          => UNCHANGED Collections]_vars

\* C10: the tasks enumerate-all yields are the tasks for which find returns
\* a task: find(id) returns a task exactly when _all_tasks() yields one with
\* that id.
C10_EnumerateIsFindable ==
    [][\A task_id \in TaskIds :
          FindCall(task_id)
          => (last_call'.value # {}
              <=> task_id \in ElemSet(AllTasks(waiting_tasks, running_tasks,
                                              complete_tasks)))]_vars

\* ------------------------------------ TaskQueue, SimpleTaskQueue and the
\* ------------------------------------ methods a class leaves to its base
StorageHooks ==
    {"_waiting_task", "_running_task", "_complete_task", "_remove_task", "_all_tasks"}

QueueOperations == {"enqueue", "run", "complete", "find"}

Classes ==
    {"TaskQueue", "SimpleTaskQueue", "SchedulingTaskQueue", "VolatileTaskQueue",
     "PersistentTaskQueue"}

\* the methods each class statement defines
Defines(cls) ==
    CASE cls = "TaskQueue" -> StorageHooks \cup QueueOperations
      [] cls = "SimpleTaskQueue" -> QueueOperations
      [] cls = "SchedulingTaskQueue" ->
            QueueOperations \cup {"__init__", "_dispatch", "_initialize_runs",
                                  "_finalize_runs", "_get_tasks", "_pre_run", "_post_run"}
      [] cls = "VolatileTaskQueue" -> StorageHooks \cup {"__init__"}
      [] cls = "PersistentTaskQueue" -> StorageHooks \cup {"__init__"}

\* every class derives from TaskQueue alone: the class whose definition of
\* the method an instance of cls runs, "object" when there is none
Resolve(cls, method) ==
    IF method \in Defines(cls) THEN cls
    ELSE IF method \in Defines("TaskQueue") THEN "TaskQueue"
    ELSE "object"

\* a durable backend whose remove is an empty stub instead of a raise
BodySilentRemove(cls, method) ==
    CASE cls = "TaskQueue" -> "raise"
      [] cls = "PersistentTaskQueue" /\ method = "_remove_task" -> "pass"
      [] cls = "PersistentTaskQueue" /\ method \in StorageHooks -> "raise"
      [] cls = "SchedulingTaskQueue" /\ method = "_get_tasks" -> "raise"
      [] cls = "SchedulingTaskQueue"
         /\ method \in {"_initialize_runs", "_finalize_runs", "_pre_run", "_post_run"}
         -> "pass"
      [] cls = "SimpleTaskQueue" /\ method = "complete" -> "pass"
      [] OTHER -> "code"

\* what the body of a method does, for the bodies of one statement: "raise"
\* is raise NotImplementedError(), "pass" does nothing and returns None,
\* "code" is a body modelled by an action of its own
Body(cls, method) ==
    CASE cls = "TaskQueue" -> "raise"
      [] cls = "PersistentTaskQueue" /\ method \in StorageHooks -> "raise"
      [] cls = "SchedulingTaskQueue" /\ method = "_get_tasks" -> "raise"
      [] cls = "SchedulingTaskQueue"
         /\ method \in {"_initialize_runs", "_finalize_runs", "_pre_run", "_post_run"}
         -> "pass"
      [] cls = "SimpleTaskQueue" /\ method = "complete" -> "pass"
      [] OTHER -> "code"

\* the calls that reach a body of one statement
SimpleCalls ==
    {c \in Classes \X (StorageHooks \cup QueueOperations \cup {"_get_tasks"}) :
        /\ Resolve(c[1], c[2]) # "object"
        /\ Body(Resolve(c[1], c[2]), c[2]) \in {"raise", "pass"}}

\* a call of a method whose body is one statement, on an instance of cls
BaseCall(cls, method, task) ==
    /\ <<cls, method>> \in SimpleCalls
    /\ last_call' = Call(method, task,
                         IF Body(Resolve(cls, method), method) = "raise"
                         THEN "NotImplementedError" ELSE "none", {})
    /\ UNCHANGED <<waiting_tasks, running_tasks, complete_tasks, lock, dipatcher_timeout,
                   dispatcher, dispatcher_error, task_state, task_queue, spawned,
                   in_operation, returned, starts, enqueues, since_wait, dispatched,
                   failed, cycle_events, simple_ran, checked>>

\* an enqueue that goes on to run the task before it returns
SimpleEnqueueRuns(task) ==
    /\ simple_ran[task] < MaxRuns
    /\ simple_ran' = [simple_ran EXCEPT ![task] = @ + 1]
    /\ task_state' = [task_state EXCEPT ![task] = "Complete"]
    /\ last_call' = Call("enqueue", task, "none", {})
    /\ UNCHANGED <<waiting_tasks, running_tasks, complete_tasks, lock, dipatcher_timeout,
                   dispatcher, dispatcher_error, task_queue, spawned, in_operation,
                   returned, starts, enqueues, since_wait, dispatched, failed,
                   cycle_events, checked>>

\* SimpleTaskQueue.enqueue(task): task.waiting()
SimpleEnqueue(task) ==
    /\ task_state' = [task_state EXCEPT ![task] = "Waiting"]
    /\ last_call' = Call("enqueue", task, "none", {})
    /\ UNCHANGED <<waiting_tasks, running_tasks, complete_tasks, lock, dipatcher_timeout,
                   dispatcher, dispatcher_error, task_queue, spawned, in_operation,
                   returned, starts, enqueues, since_wait, dispatched, failed,
                   cycle_events, simple_ran, checked>>

\* SimpleTaskQueue.run(task): task.run(), in the caller's thread: the
\* operation has been executed when run returns
SimpleRun(task) ==
    /\ simple_ran[task] < MaxRuns
    /\ simple_ran' = [simple_ran EXCEPT ![task] = @ + 1]
    /\ task_state' = [task_state EXCEPT ![task] = "Complete"]
    /\ last_call' = Call("run", task, "none", {})
    /\ UNCHANGED <<waiting_tasks, running_tasks, complete_tasks, lock, dipatcher_timeout,
                   dispatcher, dispatcher_error, task_queue, spawned, in_operation,
                   returned, starts, enqueues, since_wait, dispatched, failed,
                   cycle_events, checked>>

\* SimpleTaskQueue.find(task_id): return None
SimpleFind(task_id) ==
    /\ last_call' = Call("find", task_id, "none", {})
    /\ UNCHANGED <<waiting_tasks, running_tasks, complete_tasks, lock, dipatcher_timeout,
                   dispatcher, dispatcher_error, task_state, task_queue, spawned,
                   in_operation, returned, starts, enqueues, since_wait, dispatched,
                   failed, cycle_events, simple_ran, checked>>

\* callers of a SimpleTaskQueue and of the methods the classes leave abstract
BaseNext ==
    \/ \E task \in Tasks : SimpleEnqueue(task)
    \/ \E task \in Tasks : SimpleRun(task)
    \/ \E task_id \in TaskIds : SimpleFind(task_id)
    \/ \E cls \in Classes, method \in StorageHooks \cup QueueOperations \cup {"_get_tasks"},
          task \in Tasks : BaseCall(cls, method, task)

BaseSpec == Init /\ [][BaseNext]_vars

\* C11: a task whose operation raised stays in the Running collection (a
\* remove aside) and never enters Complete, and the dispatcher goes on: it
\* is not ended by an exception.
C11_FailedStaysRunning ==
    [][\A task \in failed :
          /\ (In(task, running_tasks) /\ ~In(task, running_tasks')) => RemoveCall(task)
          /\ Count(task, complete_tasks') <= Count(task, complete_tasks)
          /\ dispatcher' # "dead"]_vars

Unimplemented ==
    {c \in Classes \X (StorageHooks \cup QueueOperations \cup {"_get_tasks"}) :
        \/ Resolve(c[1], c[2]) = "TaskQueue"
        \/ c[1] = "PersistentTaskQueue" /\ c[2] \in StorageHooks
        \/ c = <<"SchedulingTaskQueue", "_get_tasks">>}

\* C13: a call of a method nothing overrides raises NotImplementedError and
\* changes neither the collections nor any task.
C13_Unimplemented ==
    [][\A cls \in Classes :
          (/\ <<cls, last_call'.op>> \in Unimplemented
           /\ last_call'.arg \in Tasks
           /\ BaseCall(cls, last_call'.op, last_call'.arg))
          => /\ last_call'.raised = "NotImplementedError"
             /\ UNCHANGED <<Collections, task_state, task_queue, simple_ran>>]_vars

C13_Witness ==
    /\ last_call.op = "_get_tasks"
    /\ last_call.raised = "NotImplementedError"
    /\ Collections = <<<<>>, <<>>, <<>>>>

\* ------------------------------------------------- unique submissions
\* CdsRedistribute.POST: start_task(cds_api.redistribute, [repo_id],
\* unique=True) returns the task or None; None is answered with conflict,
\* a task with accepted.  task_set is {} for None.
Response(task_set) == IF task_set = {} THEN "conflict" ELSE "accepted"

\* The tasks of one uniqueness key that the check of start_task finds: all
\* tasks here are redistributions of the same repo, and the check looks at
\* the enumeration of the queue for one that reports Waiting or Running.
\* The queue has no operation that looks and enqueues under one acquisition
\* of its lock: enqueue(task) takes the task alone and looks for nothing.
Equivalent(w, r, c, state) ==
    {t \in ElemSet(AllTasks(w, r, c)) : state[t] \in {"Waiting", "Running"}}

\* start_task(..., unique=True), the check: a new task is built and the
\* queue is searched; with an equivalent task found, None is returned and
\* POST answers conflict
SubmitCheck(task) ==
    /\ Constructed
    /\ task_queue[task] = "None"
    /\ task \notin checked
    /\ LET found == Equivalent(waiting_tasks, running_tasks, complete_tasks, task_state)
       IN  IF found = {}
           THEN /\ checked' = checked \cup {task}
                /\ UNCHANGED last_call
           ELSE /\ last_call' = Call("POST", task, "none", {Response({})})
                /\ UNCHANGED checked
    /\ UNCHANGED <<waiting_tasks, running_tasks, complete_tasks, lock, dipatcher_timeout,
                   dispatcher, dispatcher_error, task_state, task_queue, spawned,
                   in_operation, returned, starts, enqueues, since_wait, dispatched,
                   failed, cycle_events, simple_ran>>

\* start_task(..., unique=True), after the check found nothing: the task is
\* enqueued and returned, and POST answers accepted
SubmitEnqueue(task) ==
    /\ task \in checked
    /\ Constructed
    /\ lock = "free"
    /\ checked' = checked \ {task}
    /\ task_queue' = [task_queue EXCEPT ![task] = "self"]
    /\ task_state' = [task_state EXCEPT ![task] = "Waiting"]
    /\ waiting_tasks' = WaitingTask(task, waiting_tasks)
    /\ since_wait' = IF dispatcher = "waiting" THEN since_wait \cup {task} ELSE since_wait
    /\ last_call' = Call("POST", task, "none", {Response({task})})
    /\ UNCHANGED <<running_tasks, complete_tasks, lock, dipatcher_timeout, dispatcher,
                   dispatcher_error, spawned, in_operation, returned, starts, enqueues,
                   dispatched, failed, cycle_events, simple_ran>>

\* Requests submit unique tasks while the queue works: tasks enter the queue
\* through POST alone, each request with a task of its own
SubmitNext ==
    \/ Construct
    \/ DispatchAcquire
    \/ DispatchWait
    \/ DispatchCycle
    \/ \E task \in Tasks : SubmitCheck(task)
    \/ \E task \in Tasks : SubmitEnqueue(task)
    \/ \E task \in Tasks : RunCall(task)
    \/ \E task \in Tasks : TaskBegin(task)
    \/ \E task \in Tasks : OperationReturns(task)
    \/ \E task \in Tasks : Complete(task)

SubmitSpec == Init /\ [][SubmitNext]_vars

C15_CycleRaisesNothing ==
    [][DispatchCycle => dispatcher_error' = "none" /\ dispatcher' # "dead"]_vars

\* what was done with one task during a cycle, in order
TaskEvents(ev, task) ==
    LET mine == SelectSeq(ev, LAMBDA e : e[2] = task)
    IN  [i \in 1..Len(mine) |-> mine[i][1]]

\* C16: in a dispatch cycle each selected task gets, in this order, the
\* pre-run hook, the move from Waiting to Running, the start of its thread
\* and the post-run hook (issued at once, the operation is not awaited); the
\* post-cycle hook comes last, after every selected task.
C16_CycleOrder ==
    [][DispatchCycle =>
         \A task \in ElemSet(GetTasks(waiting_tasks)) :
             /\ Len(TaskEvents(cycle_events', task)) >= 4
             /\ SubSeq(TaskEvents(cycle_events', task), 1, 4)
                    = <<"pre_run", "running", "start", "post_run">>
             /\ cycle_events'[Len(cycle_events')] = <<"finalize_runs", MissingId>>]_vars

\* C17: a dispatch cycle moves the selected tasks to Running in the order
\* the selection hook returned them: after the cycle the Running collection
\* is what it was, followed by the selection in selection order.
C17_SelectionOrder ==
    [][DispatchCycle => running_tasks' = running_tasks \o GetTasks(waiting_tasks)]_vars

\* C18: enqueue, run, complete, find and the dispatch cycle read and change
\* the three collections only with the queue lock: a step that changes a
\* collection, other than the unwrapped storage hook _remove_task, starts
\* with the lock free for the acting thread to take, and a find that did not
\* raise read with the lock taken.  The callers give the lock back before
\* they return.  The dispatcher has the lock from its acquire on, through
\* every cycle, and the lock leaves it in the timed wait alone.  The thread
\* of a task's operation takes no lock to begin, to return or to raise.
C18_UnderLock ==
    [][/\ \/ Collections' = Collections
          \/ lock = "free"
          \/ \E task \in Tasks : RemoveCall(task)
       /\ \/ lock' = "free"
          \/ ~(\E task \in Tasks : Enqueue(task) \/ RunCall(task) \/ Complete(task))
       /\ \/ lock = "free" /\ lock' = "free"
          \/ ~(\E task_id \in TaskIds : last_call'.raised = "none" /\ FindCall(task_id))
       /\ \/ lock' = "dispatcher"
          \/ ~DispatchCycle
       /\ dispatcher' = "locked" => lock' = "dispatcher"
       /\ (lock = "dispatcher" /\ lock' = "free") => DispatchWait
       /\ \/ UNCHANGED <<lock, Collections>>
          \/ ~(\E task \in Tasks :
                   TaskBegin(task) \/ OperationReturns(task) \/ OperationRaises(task))]_vars

\* an operation executes while the dispatcher has the lock, and callers
\* changed the collections before
C18_Witness ==
    /\ lock = "dispatcher"
    /\ \E task \in Tasks : in_operation[task] > 0 /\ In(task, running_tasks)

\* C19: a call of enqueue, complete or find is never blocked forever: a
\* thread that has reached its call of complete() never waits for a lock
\* whose holder has ended, since such a lock is never released.
C19_LockComesBack ==
    \A task \in Tasks :
        returned[task] > 0 => ~(lock = "dispatcher" /\ dispatcher = "dead")

\* C20: run(task) of a waiting task records it as Running, starts one thread
\* for its operation and returns at once; and the dispatch loop does not
\* wait for operations: a cycle that finds an operation still executing
\* goes through to the next timed wait.
C20_RunReturns ==
    [][/\ \A task \in Tasks :
              (RunCall(task) /\ In(task, waiting_tasks))
              => /\ running_tasks' = Append(running_tasks, task)
                 /\ starts'[task] = starts[task] + 1
                 /\ spawned'[task] = spawned[task] + 1
                 /\ last_call'.raised = "none"
       /\ (DispatchCycle /\ \E task \in Tasks : in_operation[task] > 0)
              => dispatcher' = "locked"]_vars

\* C21: on the in-memory storage, _running_task of a task that is not
\* waiting (reached through run) and _complete_task of a task that is not
\* running (reached through complete) raise ValueError, which is not the
\* NotImplementedError of an unimplemented method, and the three collections
\* stay as they were: the task is appended nowhere and no thread is started.
C21_LogicError ==
    [][\A task \in Tasks :
          /\ (last_call'.arg = task /\ ~In(task, waiting_tasks) /\ RunCall(task))
             => /\ last_call'.raised = "ValueError"
                /\ last_call'.raised # "NotImplementedError"
                /\ UNCHANGED <<Collections, starts, spawned>>
          /\ (last_call'.arg = task /\ ~In(task, running_tasks) /\ Complete(task))
             => /\ last_call'.raised = "ValueError"
                /\ last_call'.raised # "NotImplementedError"
                /\ UNCHANGED <<Collections, task_state>>]_vars

\* a thread's complete() has just failed on a task that was not running
C21_Witness ==
    \E task \in Tasks :
        /\ last_call = Call("complete", task, "ValueError", {})
        /\ ~In(task, complete_tasks)

\* C22: a remove of a task that is Waiting or Running leaves the task in
\* none of the three collections; the complete() that the thread of a task
\* the queue no longer holds calls later puts nothing in the Complete
\* collection, and neither run() nor a dispatch cycle starts a task the queue
\* no longer holds.
C22_RemovedIsGone ==
    [][\A task \in Tasks :
          /\ (/\ last_call'.arg = task
              /\ In(task, waiting_tasks) \/ In(task, running_tasks)
              /\ RemoveCall(task))
             => ~In(task, AllTasks(waiting_tasks', running_tasks', complete_tasks'))
          /\ (last_call'.arg = task /\ ~Held(task) /\ Complete(task))
             => ~In(task, complete_tasks')
          /\ (~Held(task) /\ (RunCall(task) \/ DispatchCycle))
             => starts'[task] = starts[task]]_vars

\* C23: enqueue(task) sets the task's queue reference, makes the task report
\* Waiting and appends it at the end of the Waiting collection; nothing else
\* changes: Running and Complete are as before, no thread is started, the
\* other tasks are as before, the lock is free again and the dispatcher is
\* where it was (its condition is not notified, it stays in its timed wait).
C23_EnqueueFrame ==
    [][\A task \in Tasks :
          Enqueue(task)
          => /\ task_queue' = [task_queue EXCEPT ![task] = "self"]
             /\ task_state' = [task_state EXCEPT ![task] = "Waiting"]
             /\ waiting_tasks' = waiting_tasks \o <<task>>
             /\ UNCHANGED <<running_tasks, complete_tasks, spawned, starts, in_operation,
                            returned, lock, dispatcher, dispatcher_error>>]_vars

\* a task was enqueued behind another one while the dispatcher was in its
\* timed wait
C23_Witness ==
    \E task \in Tasks :
        /\ last_call = Call("enqueue", task, "none", {})
        /\ Len(waiting_tasks) >= 2
        /\ waiting_tasks[Len(waiting_tasks)] = task
        /\ waiting_tasks[1] # task
        /\ dispatcher = "waiting"

\* C24: whenever the dispatcher thread reads the dispatch interval for its
\* timed wait, the constructor has assigned it: the thread never finds the
\* attribute unset, however the two threads interleave.
C24_TimeoutAssigned ==
    [][DispatchWait => dipatcher_timeout = "set" /\ dispatcher' = "waiting"]_vars

====
